---- MODULE Spec2Model ----
(***************************************************************************)
(* Model of api/views.py: the token-creation endpoint (create_token) and   *)
(* the two websocket notification endpoints (WalletNotify, InvoiceNotify). *)
(*                                                                         *)
(* Collaborators that live outside api/views.py (utils.AuthDependency,     *)
(* utils.authenticate_user, utils.make_subscriber, the pub/sub broker and  *)
(* the publisher of events) are modelled from their documented contracts.  *)
(***************************************************************************)
EXTENDS Integers, Sequences, FiniteSets, TLC

(***************************************************************************)
(* Bounds of the model.                                                    *)
(***************************************************************************)
MaxSessions == 2    \* websocket sessions opened during a run
MaxPublish == 2     \* events published during a run
MaxCalls == 1       \* calls of create_token during a run
MaxPerms == 2       \* length of a requested permission list

(***************************************************************************)
(* Program constants.                                                      *)
(***************************************************************************)
WS_1008_POLICY_VIOLATION == 1008
WS_1000_NORMAL_CLOSURE == 1000

(***************************************************************************)
(* The database the handlers read: users, wallets, invoices, tokens.       *)
(***************************************************************************)
Users == {"alice", "bob", "root"}
NoUser == "nobody"

is_superuser(user) == user = "root"

Scopes == {"server_management", "full_control", "wallet_management"}

\* Wallet id -> owning user (models.Wallet joined with models.User).
WalletOwner == (1 :> "alice")

\* Invoices present in the database.
InvoiceIds == {1, 2}

\* The tokens stored before the run; a token's id is its index.
InitTokens ==
    << [user_id |-> "alice", permissions |-> <<"wallet_management">>],
       [user_id |-> "bob", permissions |-> <<"wallet_management">>],
       [user_id |-> "bob", permissions |-> <<"full_control">>],
       [user_id |-> "bob", permissions |-> <<>>],
       [user_id |-> "root", permissions |-> <<"wallet_management">>],
       [user_id |-> "root", permissions |-> <<"full_control">>] >>

Sessions == 1..MaxSessions

\* Path parameter model_id as the client wrote it.
RawIds == {"1", "2", "3", "abc"}

\* int(websocket.path_params["model_id"]): the decimal strings parse, the
\* rest raise ValueError (0 stands for the exception).
IntTable == ("1" :> 1) @@ ("2" :> 2) @@ ("3" :> 3)
ParseError == 0
int(raw) == IF raw \in DOMAIN IntTable THEN IntTable[raw] ELSE ParseError

VARIABLES
    tokens,          \* models.Token rows, a sequence: id = index
    call,            \* the last create_token request and its response
    invoice_status,  \* models.Invoice.status per invoice id
    session,         \* per websocket session: the endpoint object's fields
    transport,       \* per session: frames sent, close code, peer state
    registry,        \* broker: channel id -> sessions registered on it
    queue,           \* broker: per subscription handle, undelivered events
    log              \* every publish so far, in order: channel, entity kind, event

vars == <<tokens, call, invoice_status, session, transport, registry, queue, log>>

(***************************************************************************)
(* Permission lists are Python lists: order and repetition are kept.       *)
(***************************************************************************)
PermLists == UNION {[1..n -> Scopes] : n \in 0..MaxPerms}

\* x in perms
Contains(perms, x) == \E i \in 1..Len(perms) : perms[i] = x

ToSet(perms) == {perms[i] : i \in 1..Len(perms)}

\* list.remove(x): drops the first occurrence of x and only that one.
RECURSIVE remove(_, _)
remove(perms, x) ==
    IF perms = <<>> THEN <<>>
    ELSE IF Head(perms) = x THEN Tail(perms)
    ELSE <<Head(perms)>> \o remove(Tail(perms), x)

(***************************************************************************)
(* utils.AuthDependency and utils.authenticate_user.                       *)
(***************************************************************************)
NoToken == 0

\* The Authorization header (or the token query parameter of a websocket)
\* names a stored token or it does not.
Authenticate(store, presented) ==
    IF presented \in 1..Len(store) THEN presented ELSE NoToken

\* required scopes are met by the token, by full_control or by a superuser.
Authorize(store, tok, required) ==
    \/ required \subseteq ToSet(store[tok].permissions)
    \/ "full_control" \in ToSet(store[tok].permissions)
    \/ is_superuser(store[tok].user_id)

(***************************************************************************)
(* create_token, lines 603-614: the decision on the requested permissions. *)
(***************************************************************************)
\* Mutant of ReservedScope: the superuser exemption is forgotten.
ReservedScopeNoExemption(user, permissions, strict) ==
    IF Contains(permissions, "server_management")
    THEN IF strict
         THEN [status |-> 422, permissions |-> permissions]
         ELSE [status |-> 200, permissions |-> remove(permissions, "server_management")]
    ELSE [status |-> 200, permissions |-> permissions]

\* Mutant of ReservedScope: strict is ignored, the scope is always stripped.
ReservedScopeNeverStrict(user, permissions, strict) ==
    IF Contains(permissions, "server_management") /\ ~is_superuser(user)
    THEN [status |-> 200, permissions |-> remove(permissions, "server_management")]
    ELSE [status |-> 200, permissions |-> permissions]

\* Lines 605-610: the reserved scope asked for by a non-superuser.
ReservedScope(user, permissions, strict) ==
    IF Contains(permissions, "server_management") /\ ~is_superuser(user)
    THEN IF strict
         THEN [status |-> 422, permissions |-> permissions]
         ELSE [status |-> 200, permissions |-> remove(permissions, "server_management")]
    ELSE [status |-> 200, permissions |-> permissions]

\* Mutant of NotEnoughPermissions: the check is dropped.
NotEnoughPermissionsNever(store, tok, permissions) == FALSE

\* Lines 611-614: a grantor token without full_control must hold every
\* requested permission; a login (no token) is not checked.
NotEnoughPermissions(store, tok, permissions) ==
    /\ tok # NoToken
    /\ ~Contains(store[tok].permissions, "full_control")
    /\ \E i \in 1..Len(permissions) :
           ~Contains(store[tok].permissions, permissions[i])

\* Lines 592-617: the response status and the permissions to store.
Decide(store, user, tok, permissions, strict) ==
    IF user = NoUser THEN [status |-> 401, permissions |-> permissions]
    ELSE LET r == ReservedScope(user, permissions, strict) IN
         IF r.status # 200 THEN r
         ELSE IF NotEnoughPermissions(store, tok, r.permissions)
              THEN [status |-> 403, permissions |-> r.permissions]
              ELSE r

NoCall ==
    [status |-> 0, user |-> NoUser, token |-> NoToken, permissions |-> <<>>,
     strict |-> FALSE, created |-> NoToken, before |-> InitTokens, n |-> 0]

\* POST /token.  header: the token presented (0: none or unknown);
\* login: the user authenticate_user(email, password) resolves (or none).
\* call keeps the request, the response and the stored tokens as the call
\* found them.
create_token(header, login, permissions, strict) ==
    /\ call.n < MaxCalls
    /\ LET tok == Authenticate(tokens, header)
           user == IF tok # NoToken THEN tokens[tok].user_id ELSE login
           d == Decide(tokens, user, tok, permissions, strict)
       IN  /\ tokens' = IF d.status = 200
                        THEN Append(tokens, [user_id |-> user, permissions |-> d.permissions])
                        ELSE tokens
           /\ call' = [status |-> d.status, user |-> user, token |-> tok,
                       permissions |-> permissions, strict |-> strict,
                       created |-> IF d.status = 200 THEN Len(tokens) + 1 ELSE NoToken,
                       before |-> tokens, n |-> call.n + 1]
    /\ UNCHANGED <<invoice_status, session, transport, registry, queue, log>>

TokenNext ==
    \E header \in 0..Len(tokens), permissions \in PermLists, strict \in BOOLEAN :
        \E login \in IF header = 0 THEN Users \cup {NoUser} ELSE {NoUser} :
            create_token(header, login, permissions, strict)

(***************************************************************************)
(* Messages.  A published event is a JSON object; n tells the events of a  *)
(* run apart (0: a message the endpoint builds itself).                    *)
(***************************************************************************)
Message(status, n) == [status |-> status, n |-> n]

\* publish_json / websocket.send_json write the object as JSON text,
\* channel.get_json reads it back.
json_dumps(msg) == [json |-> msg]
json_loads(text) == text.json

(***************************************************************************)
(* Connection setup: on_connect up to the point where it either closes the *)
(* connection and returns, or goes on to make_subscriber.                  *)
(*   id, user, entity : the attributes the handler has set on itself       *)
(*   close_code       : the code it closed with (0: it did not close)      *)
(*   send             : the frames it sent before closing                  *)
(***************************************************************************)
NoId == 0
NotClosed == 0
NoEntity == "None"

Setup(id, user, entity, close_code, send) ==
    [id |-> id, user |-> user, entity |-> entity, close_code |-> close_code,
     send |-> send]

\* Mutant of WalletSetup: a wallet that is not found no longer ends setup.
WalletSetupNoLookup(store, raw, query) ==
    IF int(raw) = ParseError
    THEN Setup(NoId, NoUser, NoEntity, WS_1008_POLICY_VIOLATION, <<>>)
    ELSE IF query = <<>>
    THEN Setup(int(raw), NoUser, NoEntity, WS_1008_POLICY_VIOLATION, <<>>)
    ELSE LET tok == Authenticate(store, query[1]) IN
         IF tok = NoToken \/ ~Authorize(store, tok, {"wallet_management"})
         THEN Setup(int(raw), NoUser, NoEntity, WS_1008_POLICY_VIOLATION, <<>>)
         ELSE Setup(int(raw), store[tok].user_id, NoEntity, NotClosed, <<>>)

\* WalletNotify.on_connect, lines 683-705.  query is <<>> when the request
\* has no token parameter, <<t>> when it presents t.  The wallet is looked
\* up by its id alone, joined with its owner.
WalletSetup(store, raw, query) ==
    IF int(raw) = ParseError
    THEN Setup(NoId, NoUser, NoEntity, WS_1008_POLICY_VIOLATION, <<>>)
    ELSE IF query = <<>>
    THEN Setup(int(raw), NoUser, NoEntity, WS_1008_POLICY_VIOLATION, <<>>)
    ELSE LET tok == Authenticate(store, query[1]) IN
         IF tok = NoToken \/ ~Authorize(store, tok, {"wallet_management"})
         THEN Setup(int(raw), NoUser, NoEntity, WS_1008_POLICY_VIOLATION, <<>>)
         ELSE IF int(raw) \notin DOMAIN WalletOwner
              THEN Setup(int(raw), store[tok].user_id, NoEntity,
                         WS_1008_POLICY_VIOLATION, <<>>)
              ELSE Setup(int(raw), store[tok].user_id, "Wallet", NotClosed, <<>>)

\* Mutant of InvoiceSetup: the status of the invoice is not looked at.
InvoiceSetupNoStatusCheck(status, raw) ==
    IF int(raw) = ParseError
    THEN Setup(NoId, NoUser, NoEntity, WS_1008_POLICY_VIOLATION, <<>>)
    ELSE IF int(raw) \notin DOMAIN status
    THEN Setup(int(raw), NoUser, NoEntity, WS_1008_POLICY_VIOLATION, <<>>)
    ELSE Setup(int(raw), NoUser, status[int(raw)], NotClosed, <<>>)

\* InvoiceNotify.on_connect, lines 724-742.  entity is the status read.
InvoiceSetup(status, raw) ==
    IF int(raw) = ParseError
    THEN Setup(NoId, NoUser, NoEntity, WS_1008_POLICY_VIOLATION, <<>>)
    ELSE IF int(raw) \notin DOMAIN status
    THEN Setup(int(raw), NoUser, NoEntity, WS_1008_POLICY_VIOLATION, <<>>)
    ELSE IF status[int(raw)] # "Pending"
    THEN Setup(int(raw), NoUser, status[int(raw)], WS_1000_NORMAL_CLOSURE,
               <<json_dumps(Message(status[int(raw)], 0))>>)
    ELSE Setup(int(raw), NoUser, status[int(raw)], NotClosed, <<>>)

(***************************************************************************)
(* State of a session (the endpoint object and its request) and of its     *)
(* transport.                                                              *)
(***************************************************************************)
NoSession ==
    [kind |-> "none", pc |-> "idle", raw |-> "", query |-> <<>>,
     id |-> NoId, user |-> NoUser, entity |-> NoEntity,
     subscriber |-> FALSE, poll |-> "none",
     unsubscribes |-> 0, subAt |-> 0, unsubAt |-> 0]

NoTransport == [sent |-> <<>>, close_code |-> NotClosed, peer |-> "open"]

ChannelIds == {1, 2, 3}

Init ==
    /\ tokens = InitTokens
    /\ call = NoCall
    /\ invoice_status = (1 :> "Pending") @@ (2 :> "Paid")
    /\ session = [s \in Sessions |-> NoSession]
    /\ transport = [s \in Sessions |-> NoTransport]
    /\ registry = [c \in ChannelIds |-> {}]
    /\ queue = [s \in Sessions |-> <<>>]
    /\ log = <<>>

\* The transport still carries frames to the peer.
IsOpen(s) == transport[s].peer = "open" /\ transport[s].close_code = NotClosed

(***************************************************************************)
(* The broker: utils.make_subscriber, subscriber.unsubscribe, publish.     *)
(***************************************************************************)
\* subscribe(channel:{id}) on a connection of the session's own.
subscribe(s, id) ==
    /\ registry' = [registry EXCEPT ![id] = @ \cup {s}]
    /\ queue' = [queue EXCEPT ![s] = <<>>]

\* unsubscribe(channel:{id}) on the session's own connection.
unsubscribe(s, id) ==
    registry' = [registry EXCEPT ![id] = @ \ {s}]

\* Every subscriber registered on channel:{id} gets the event appended.  The
\* channel name carries the id alone; kind (the entity the event is about)
\* is kept in the log only.
publish(kind, id, msg) ==
    /\ queue' = [s \in Sessions |->
                    IF s \in registry[id] THEN Append(queue[s], json_dumps(msg))
                    ELSE queue[s]]
    /\ log' = Append(log, [channel |-> id, kind |-> kind, msg |-> msg])

(***************************************************************************)
(* What the two endpoints share.                                           *)
(***************************************************************************)
\* Sessions are numbered in the order they connect.
Connecting(s) ==
    /\ session[s].pc = "idle"
    /\ \A t \in Sessions : t < s => session[t].pc # "idle"

\* on_connect has run its setup: it has closed and returned (the receive
\* loop of WebSocketEndpoint follows), or it is about to subscribe.
AfterSetup(s, kind, raw, query, r) ==
    /\ session' = [session EXCEPT ![s] =
          [@ EXCEPT !.kind = kind, !.raw = raw, !.query = query,
                    !.id = r.id, !.user = r.user, !.entity = r.entity,
                    !.pc = IF r.close_code = NotClosed THEN "subscribing"
                           ELSE "receiving"]]
    /\ transport' = [transport EXCEPT ![s] =
          [@ EXCEPT !.sent = @ \o r.send, !.close_code = r.close_code]]

\* Lines 706-707 and 744-745: make_subscriber, then the relay task starts.
Subscribe(s) ==
    /\ session[s].pc = "subscribing"
    /\ subscribe(s, session[s].id)
    /\ session' = [session EXCEPT ![s] =
          [@ EXCEPT !.subscriber = TRUE, !.poll = "running", !.pc = "receiving",
                    !.subAt = Len(log)]]

\* Mutant of Disconnected: the handle is never released.
DisconnectedLeak(s) ==
    /\ session' = [session EXCEPT ![s].pc = "closed"]
    /\ UNCHANGED registry

\* on_disconnect: unsubscribe if a handle was obtained.
Disconnected(s) ==
    IF session[s].subscriber
    THEN /\ unsubscribe(s, session[s].id)
         /\ session' = [session EXCEPT ![s] =
                [@ EXCEPT !.pc = "closed", !.unsubscribes = @ + 1,
                          !.unsubAt = Len(log)]]
    ELSE /\ session' = [session EXCEPT ![s].pc = "closed"]
         /\ UNCHANGED registry

\* The receive loop of WebSocketEndpoint ends when the peer has gone or the
\* handler has closed the connection; on_disconnect then runs.
HasDisconnected(s) ==
    /\ session[s].pc = "receiving"
    /\ ~IsOpen(s)

\* Mutant of Relay: the message is sent twice.
RelayTwice(s) ==
    /\ queue' = [queue EXCEPT ![s] = Tail(@)]
    /\ IF IsOpen(s)
       THEN /\ transport' = [transport EXCEPT ![s].sent =
                   @ \o <<json_dumps(json_loads(Head(queue[s]))),
                          json_dumps(json_loads(Head(queue[s])))>>]
            /\ UNCHANGED session
       ELSE /\ session' = [session EXCEPT ![s].poll = "failed"]
            /\ UNCHANGED transport

\* Mutant of Relay: a message is taken from the channel and not sent.
RelaySkip(s) ==
    /\ queue' = [queue EXCEPT ![s] = Tail(@)]
    /\ IF IsOpen(s)
       THEN UNCHANGED <<session, transport>>
       ELSE /\ session' = [session EXCEPT ![s].poll = "failed"]
            /\ UNCHANGED transport

\* Mutant of Relay: after sending a terminal status the task closes the
\* connection.
RelayCloseOnTerminal(s) ==
    /\ queue' = [queue EXCEPT ![s] = Tail(@)]
    /\ IF IsOpen(s)
       THEN /\ transport' = [transport EXCEPT ![s] =
                   [@ EXCEPT !.sent = Append(@, json_dumps(json_loads(Head(queue[s])))),
                             !.close_code =
                                 IF json_loads(Head(queue[s])).status = "event"
                                 THEN @ ELSE WS_1000_NORMAL_CLOSURE]]
            /\ UNCHANGED session
       ELSE /\ session' = [session EXCEPT ![s].poll = "failed"]
            /\ UNCHANGED transport

\* One turn of poll_subs: wait_message, get_json, send_json.  Sending on a
\* transport that is no longer open raises and ends the task.
Relay(s) ==
    /\ queue' = [queue EXCEPT ![s] = Tail(@)]
    /\ IF IsOpen(s)
       THEN /\ transport' = [transport EXCEPT ![s].sent =
                   Append(@, json_dumps(json_loads(Head(queue[s]))))]
            /\ UNCHANGED session
       ELSE /\ session' = [session EXCEPT ![s].poll = "failed"]
            /\ UNCHANGED transport

\* wait_message answers False once the channel is closed and drained.
RelayEnd(s) ==
    /\ s \notin registry[session[s].id]
    /\ session' = [session EXCEPT ![s].poll = "finished"]
    /\ UNCHANGED <<transport, queue>>

PollSubs(s) ==
    /\ session[s].poll = "running"
    /\ IF queue[s] # <<>> THEN Relay(s) ELSE RelayEnd(s)

(***************************************************************************)
(* WalletNotify                                                            *)
(***************************************************************************)
WalletNotify_on_connect(s, raw, query) ==
    /\ Connecting(s)
    /\ AfterSetup(s, "wallet", raw, query, WalletSetup(tokens, raw, query))
    /\ UNCHANGED <<tokens, call, invoice_status, registry, queue, log>>

WalletNotify_subscribe(s) ==
    /\ session[s].kind = "wallet"
    /\ Subscribe(s)
    /\ UNCHANGED <<tokens, call, invoice_status, transport, log>>

WalletNotify_poll_subs(s) ==
    /\ session[s].kind = "wallet"
    /\ PollSubs(s)
    /\ UNCHANGED <<tokens, call, invoice_status, registry, log>>

WalletNotify_on_disconnect(s) ==
    /\ session[s].kind = "wallet"
    /\ HasDisconnected(s)
    /\ Disconnected(s)
    /\ UNCHANGED <<tokens, call, invoice_status, transport, queue, log>>

(***************************************************************************)
(* InvoiceNotify                                                           *)
(***************************************************************************)
InvoiceNotify_on_connect(s, raw) ==
    /\ Connecting(s)
    /\ AfterSetup(s, "invoice", raw, <<>>, InvoiceSetup(invoice_status, raw))
    /\ UNCHANGED <<tokens, call, invoice_status, registry, queue, log>>

InvoiceNotify_subscribe(s) ==
    /\ session[s].kind = "invoice"
    /\ Subscribe(s)
    /\ UNCHANGED <<tokens, call, invoice_status, transport, log>>

InvoiceNotify_poll_subs(s) ==
    /\ session[s].kind = "invoice"
    /\ PollSubs(s)
    /\ UNCHANGED <<tokens, call, invoice_status, registry, log>>

InvoiceNotify_on_disconnect(s) ==
    /\ session[s].kind = "invoice"
    /\ HasDisconnected(s)
    /\ Disconnected(s)
    /\ UNCHANGED <<tokens, call, invoice_status, transport, queue, log>>

(***************************************************************************)
(* The environment: the peer, and the backend that publishes events.       *)
(***************************************************************************)
\* The remote peer closes its end of an open connection.
PeerDisconnect(s) ==
    /\ session[s].pc \in {"subscribing", "receiving"}
    /\ IsOpen(s)
    /\ transport' = [transport EXCEPT ![s].peer = "gone"]
    /\ UNCHANGED <<tokens, call, invoice_status, session, registry, queue, log>>

\* The entities events are published for: wallet 1, invoices 1 and 2.
Publishable == {<<"wallet", 1>>, <<"invoice", 1>>, <<"invoice", 2>>}

\* A wallet or invoice event is published on channel:{id}.
Publish(kind, id) ==
    /\ Len(log) < MaxPublish
    /\ publish(kind, id, Message("event", Len(log) + 1))
    /\ UNCHANGED <<tokens, call, invoice_status, session, transport, registry>>

\* A pending invoice reaches a terminal status, which is published.
InvoiceStatusChange(id) ==
    /\ Len(log) < MaxPublish
    /\ invoice_status[id] = "Pending"
    /\ invoice_status' = [invoice_status EXCEPT ![id] = "Paid"]
    /\ publish("invoice", id, Message("Paid", Len(log) + 1))
    /\ UNCHANGED <<tokens, call, session, transport, registry>>

\* The token parameter of a wallet request: absent, unknown (0), or one of
\* alice's and bob's stored tokens.
Queries == {<<>>, <<0>>, <<1>>, <<2>>, <<4>>}

Next ==
    \/ \E s \in Sessions, raw \in RawIds, query \in Queries :
           WalletNotify_on_connect(s, raw, query)
    \/ \E s \in Sessions : WalletNotify_subscribe(s)
    \/ \E s \in Sessions : WalletNotify_poll_subs(s)
    \/ \E s \in Sessions : WalletNotify_on_disconnect(s)
    \/ \E s \in Sessions, raw \in RawIds : InvoiceNotify_on_connect(s, raw)
    \/ \E s \in Sessions : InvoiceNotify_subscribe(s)
    \/ \E s \in Sessions : InvoiceNotify_poll_subs(s)
    \/ \E s \in Sessions : InvoiceNotify_on_disconnect(s)
    \/ \E s \in Sessions : PeerDisconnect(s)
    \/ \E e \in Publishable : Publish(e[1], e[2])
    \/ \E id \in {1, 2} : InvoiceStatusChange(id)

Spec == Init /\ [][Next]_vars

TokenSpec == Init /\ [][TokenNext]_vars

\* The steps the server takes for a session once it is connected.  The
\* event loop runs every handler and task that is ready; the peer and the
\* publishers are under no such obligation.
ServerStep(s) ==
    \/ WalletNotify_subscribe(s)
    \/ WalletNotify_poll_subs(s)
    \/ WalletNotify_on_disconnect(s)
    \/ InvoiceNotify_subscribe(s)
    \/ InvoiceNotify_poll_subs(s)
    \/ InvoiceNotify_on_disconnect(s)

FairSpec == Spec /\ \A s \in Sessions : WF_vars(ServerStep(s))

(***************************************************************************)
(* Claims about create_token, checked under TokenSpec.                     *)
(***************************************************************************)
Called == call.status # 0
Created == call.created # NoToken
ByToken == call.token # NoToken
GrantorScopes == ToSet(call.before[call.token].permissions)
CreatedScopes == ToSet(tokens[call.created].permissions)

\* C3, as the specification states it: a token created by a grantor who is
\* not a superuser carries a subset of the scopes of the token the grantor
\* authenticated with, and a request whose scopes are not such a subset
\* creates no token.
C3_AsStated ==
    /\ (Created /\ ByToken /\ ~is_superuser(call.user))
           => CreatedScopes \subseteq GrantorScopes
    /\ (Called /\ ByToken /\ ~is_superuser(call.user)
               /\ ~(ToSet(call.permissions) \subseteq GrantorScopes))
           => ~Created

\* C3, amended: the subset rule binds a non-superuser grantor whose token
\* lacks full_control.  Such a grantor's new token carries a subset of the
\* scopes of the grantor's token, and a request that names a scope other
\* than server_management which the grantor's token lacks creates no token
\* and leaves the stored tokens as they were.
C3_ScopesWithinGrantorToken ==
    /\ (Created /\ ByToken /\ ~is_superuser(call.user)
                /\ "full_control" \notin GrantorScopes)
           => CreatedScopes \subseteq GrantorScopes
    /\ (Called /\ ByToken /\ ~is_superuser(call.user)
               /\ "full_control" \notin GrantorScopes
               /\ ~((ToSet(call.permissions) \ {"server_management"})
                        \subseteq GrantorScopes))
           => ~Created /\ tokens = call.before

\* C3 witness: a non-superuser presenting a token without full_control has
\* created a token that carries a scope.
C3_Witness ==
    /\ Created /\ ByToken /\ ~is_superuser(call.user)
    /\ "full_control" \notin GrantorScopes
    /\ CreatedScopes # {}

\* C4: a token created by a non-superuser never carries server_management,
\* however often and wherever the request names it.
C4_ReservedScopeNeverStored ==
    (Created /\ ~is_superuser(call.user))
        => ~Contains(tokens[call.created].permissions, "server_management")

\* C5: a non-superuser who asks for server_management with strict=true gets
\* the scope error (422) whatever the credential, and no token is stored.
C5_StrictReservedScopeRejected ==
    (Called /\ call.user # NoUser /\ ~is_superuser(call.user) /\ call.strict
            /\ Contains(call.permissions, "server_management"))
        => call.status = 422 /\ ~Created /\ tokens = call.before

\* C5 witness: such a call made with a token that lacks a requested scope,
\* where the permission error (403) would be the other candidate.
C5_Witness ==
    /\ Called /\ ByToken /\ ~is_superuser(call.user) /\ call.strict
    /\ Contains(call.permissions, "server_management")
    /\ NotEnoughPermissions(call.before, call.token, call.permissions)

\* C6, as the specification states it: a superuser's request is never
\* rejected, whatever the scopes of the token presented, and the new token
\* holds exactly the requested scopes.
C6_AsStated ==
    (Called /\ is_superuser(call.user))
        => call.status = 200 /\ tokens[call.created].permissions = call.permissions

\* C6, amended: for a superuser server_management is neither refused nor
\* stripped; the request succeeds exactly when the superuser logged in with
\* email and password, or presented a token with full_control, or presented
\* a token holding every requested scope, and is refused with 403
\* otherwise; a created token holds exactly the requested list.
C6_SuperuserScopes ==
    (Called /\ is_superuser(call.user))
        => /\ call.status \in {200, 403}
           /\ call.status = 200
                <=> \/ ~ByToken
                    \/ "full_control" \in GrantorScopes
                    \/ ToSet(call.permissions) \subseteq GrantorScopes
           /\ call.status = 200
                => tokens[call.created].permissions = call.permissions

\* C6 witness: a superuser has created a token with server_management.
C6_Witness ==
    /\ Created /\ is_superuser(call.user)
    /\ Contains(tokens[call.created].permissions, "server_management")

(***************************************************************************)
(* Claims about the notification endpoints, checked under Spec.            *)
(***************************************************************************)
Connected(s) == session[s].pc # "idle"
Registered(s) == \E c \in ChannelIds : s \in registry[c]
HoldsNothing(s) ==
    /\ ~session[s].subscriber
    /\ session[s].poll = "none"
    /\ session[s].unsubscribes = 0
    /\ ~Registered(s)

IsPrefix(a, b) == Len(a) <= Len(b) /\ a = SubSeq(b, 1, Len(a))
IsSuffix(a, b) == Len(a) <= Len(b) /\ a = SubSeq(b, Len(b) - Len(a) + 1, Len(b))

\* The events published on the session's channel after its subscribe and
\* before its unsubscribe (up to now while it is still subscribed), as the
\* JSON texts a verbatim relay sends.
PublishedFor(s) ==
    LET last == IF session[s].unsubscribes > 0 THEN session[s].unsubAt ELSE Len(log)
        OnChannel(e) == e.channel = session[s].id
        window == SelectSeq(SubSeq(log, session[s].subAt + 1, last), OnChannel)
    IN  [i \in 1..Len(window) |-> json_dumps(window[i].msg)]

\* The request of a connected wallet session presents a stored token.
PresentsToken(s) ==
    /\ session[s].query # <<>>
    /\ session[s].query[1] \in 1..Len(tokens)
PresentedToken(s) == tokens[session[s].query[1]]

\* C1: a wallet session whose token holds wallet_management and belongs to
\* someone other than the owner of the wallet is closed with the policy
\* violation code and never holds a subscription.
C1_OnlyOwnerSubscribes ==
    \A s \in Sessions :
        (/\ session[s].kind = "wallet"
         /\ int(session[s].raw) \in DOMAIN WalletOwner
         /\ PresentsToken(s)
         /\ "wallet_management" \in ToSet(PresentedToken(s).permissions)
         /\ PresentedToken(s).user_id # WalletOwner[int(session[s].raw)])
        => /\ transport[s].close_code = WS_1008_POLICY_VIOLATION
           /\ HoldsNothing(s)

\* What makes connection setup fail, read off the request and the database.
WalletRequestFails(s) ==
    \/ session[s].raw \notin {"1", "2", "3"}
    \/ ~PresentsToken(s)
    \/ /\ "wallet_management" \notin ToSet(PresentedToken(s).permissions)
       /\ "full_control" \notin ToSet(PresentedToken(s).permissions)
       /\ ~is_superuser(PresentedToken(s).user_id)
    \/ int(session[s].raw) \notin DOMAIN WalletOwner

InvoiceRequestFails(s) ==
    \/ session[s].raw \notin {"1", "2", "3"}
    \/ int(session[s].raw) \notin InvoiceIds

RequestFails(s) ==
    \/ session[s].kind = "wallet" /\ WalletRequestFails(s)
    \/ session[s].kind = "invoice" /\ InvoiceRequestFails(s)

\* C2: a session whose setup fails is closed with the policy violation
\* code, and from then on holds no subscription, is registered on no
\* channel and has been sent nothing.
C2_FailedSetupLeavesNothing ==
    \A s \in Sessions :
        (Connected(s) /\ RequestFails(s))
        => /\ transport[s].close_code = WS_1008_POLICY_VIOLATION
           /\ HoldsNothing(s)
           /\ transport[s].sent = <<>>

\* C2 witness: a wallet session on an existing wallet whose token lacks the
\* scope has been closed, and an event was published on that wallet's
\* channel.
C2_Witness ==
    \E s \in Sessions :
        /\ session[s].kind = "wallet" /\ session[s].raw = "1"
        /\ session[s].query = <<4>>
        /\ session[s].pc = "closed"
        /\ \E i \in 1..Len(log) : log[i].channel = 1

\* C7: an invoice session that found its invoice in a status other than
\* Pending has been sent exactly one message, carrying that status, is
\* closed by the server, and never holds a subscription.
C7_TerminalInvoiceOneMessage ==
    \A s \in Sessions :
        (session[s].kind = "invoice" /\ session[s].entity \notin {NoEntity, "Pending"})
        => /\ Len(transport[s].sent) = 1
           /\ json_loads(transport[s].sent[1]).status = session[s].entity
           /\ transport[s].close_code = WS_1000_NORMAL_CLOSURE
           /\ HoldsNothing(s)

\* C7 witness: such a session has run on_disconnect.
C7_Witness ==
    \E s \in Sessions :
        /\ session[s].kind = "invoice" /\ session[s].entity = "Paid"
        /\ session[s].pc = "closed"

\* C8: unsubscribe is called at most once per handle and never without one;
\* a closed session is registered nowhere and has released its handle if it
\* had one; a channel all of whose sessions have closed has no subscriber.
C8_CleanupOnEveryExit ==
    /\ \A s \in Sessions :
          /\ session[s].unsubscribes <= (IF session[s].subscriber THEN 1 ELSE 0)
          /\ session[s].pc = "closed"
                => /\ ~Registered(s)
                   /\ session[s].unsubscribes = (IF session[s].subscriber THEN 1 ELSE 0)
    /\ \A c \in ChannelIds :
          (\A s \in Sessions :
               (Connected(s) /\ session[s].id = c) => session[s].pc = "closed")
          => registry[c] = {}

\* C8 witness: two sessions subscribed to the same channel and both have
\* closed, one of them with its relay task ended by a failed send.
C8_Witness ==
    \E s, t \in Sessions :
        /\ s # t
        /\ session[s].subscriber /\ session[t].subscriber
        /\ session[s].id = session[t].id
        /\ session[s].pc = "closed" /\ session[t].pc = "closed"
        /\ session[s].poll = "failed"

\* C9: a subscribed session whose relay task is running has been sent, or
\* still has queued, exactly the events published on its channel since it
\* subscribed, in publish order and once each; so of two sessions
\* registered on the same channel the later one's sequence is a suffix of
\* the earlier one's.
C9_FanOutInOrder ==
    /\ \A s \in Sessions :
          (session[s].subscriber /\ session[s].poll = "running")
          => transport[s].sent \o queue[s] = PublishedFor(s)
    /\ \A s, t \in Sessions :
          (/\ session[s].poll = "running" /\ session[t].poll = "running"
           /\ \E c \in ChannelIds : {s, t} \subseteq registry[c]
           /\ session[s].subAt <= session[t].subAt)
          => IsSuffix(transport[t].sent \o queue[t], transport[s].sent \o queue[s])

\* C9 witness: two sessions registered on one channel have each been sent
\* the same two events.
C9_Witness ==
    \E s, t \in Sessions :
        /\ s # t
        /\ \E c \in ChannelIds : {s, t} \subseteq registry[c]
        /\ Len(transport[s].sent) = 2
        /\ transport[t].sent = transport[s].sent

\* C10, as the specification states it: once a session that subscribed has
\* unsubscribed, what it was sent is exactly what was published on its
\* channel between its subscribe and its unsubscribe.
C10_AsStated ==
    \A s \in Sessions :
        (session[s].subscriber /\ session[s].pc = "closed")
        => transport[s].sent = PublishedFor(s)

\* C10, amended: what a subscribed session was sent is a prefix, in publish
\* order, of what was published on its channel between its subscribe and
\* its unsubscribe (nothing older, nothing skipped, nothing twice); it is
\* the whole of it when the relay task ended by draining the closed channel.
\* Events still queued when the transport closes are not sent.
C10_RelayedIsPrefixOfWindow ==
    \A s \in Sessions :
        session[s].subscriber
        => /\ IsPrefix(transport[s].sent, PublishedFor(s))
           /\ (session[s].pc = "closed" /\ session[s].poll = "finished")
                 => transport[s].sent = PublishedFor(s)

\* C10 witness: a session subscribed after an event on its channel, was
\* sent a later one, and closed with its relay task drained.
C10_Witness ==
    \E s \in Sessions :
        /\ session[s].subscriber /\ session[s].pc = "closed"
        /\ session[s].poll = "finished"
        /\ session[s].subAt > 0 /\ log[1].channel = session[s].id
        /\ transport[s].sent # <<>>

(***************************************************************************)
(* Claims about the life of a subscribed session.  C11 is checked under    *)
(* FairSpec, C12 and C13 under Spec.                                       *)
(***************************************************************************)
TracksTerminalInvoice(s) ==
    /\ session[s].kind = "invoice"
    /\ session[s].subscriber
    /\ invoice_status[session[s].id] # "Pending"

\* C11, as the specification states it: once the invoice a subscribed
\* session tracks has reached a terminal status, the session eventually
\* closes, having unsubscribed once, whether or not the peer disconnects.
C11_AsStated ==
    \A s \in Sessions :
        TracksTerminalInvoice(s)
            ~> (session[s].pc = "closed" /\ session[s].unsubscribes = 1)

\* C11, amended: a subscribed session lives exactly as long as its
\* transport.  The server never closes it, whatever status its invoice
\* reaches: while the peer is connected it stays registered on its channel
\* with no unsubscribe made, a terminal status event is relayed like any
\* other, and only a session whose peer has gone closes, unsubscribing once.
C11_SubscribedUntilPeerDisconnects ==
    \A s \in Sessions :
        session[s].subscriber
        => /\ transport[s].close_code = NotClosed
           /\ transport[s].peer = "open"
                => /\ session[s].pc = "receiving"
                   /\ session[s].unsubscribes = 0
                   /\ s \in registry[session[s].id]
           /\ session[s].pc = "closed"
                => transport[s].peer = "gone" /\ session[s].unsubscribes = 1

\* C11 witness: an invoice session has been sent the terminal status event
\* of its invoice and, its peer still connected, remains subscribed.
C11_Witness ==
    \E s \in Sessions :
        /\ TracksTerminalInvoice(s)
        /\ transport[s].peer = "open"
        /\ s \in registry[session[s].id]
        /\ \E i \in 1..Len(transport[s].sent) :
               json_loads(transport[s].sent[i]).status = "Paid"

\* The log entry a frame sent to a subscribed session relays (events are
\* told apart by n).
Relayed(s, i) ==
    CHOOSE j \in 1..Len(log) : json_dumps(log[j].msg) = transport[s].sent[i]

\* C12: a subscribed session is sent only events published for the entity
\* it tracks, of its own kind and id: an invoice session never a wallet's
\* event, a wallet session never an invoice's; and a session that
\* unsubscribes leaves every other registration in place.
C12_ChannelIsolation ==
    /\ \A s \in Sessions :
          session[s].subscriber
          => \A i \in 1..Len(transport[s].sent) :
                 /\ log[Relayed(s, i)].kind = session[s].kind
                 /\ log[Relayed(s, i)].channel = session[s].id
    /\ \A s \in Sessions :
          (session[s].subscriber /\ session[s].pc = "receiving")
          => s \in registry[session[s].id]

\* C13: an invoice session registered on the channel of an invoice that is
\* no longer Pending subscribed before the terminal status was published,
\* so that the terminal status event has reached it.
C13_NoSubscriptionAfterTerminal ==
    \A s \in Sessions :
        (/\ session[s].kind = "invoice"
         /\ session[s].subscriber
         /\ s \in registry[session[s].id]
         /\ invoice_status[session[s].id] # "Pending")
        => \E j \in (session[s].subAt + 1)..Len(log) :
               /\ log[j].channel = session[s].id
               /\ log[j].kind = "invoice"
               /\ log[j].msg.status = invoice_status[session[s].id]

====
